---- MODULE Spec2Model ----
(***************************************************************************)
(* A model of the pairing-and-trust subsystem of pyHAVector:               *)
(*   - write_config          (anki_vector/functions.py), the credential    *)
(*                           store update with its rename/write/remove     *)
(*                           discipline;                                   *)
(*   - validate_cert_name    (anki_vector/functions.py);                   *)
(*   - user_authentication   (anki_vector/functions.py);                   *)
(*   - save_cert             (anki_vector/functions.py);                   *)
(*   - read_configuration    (pyHAVector/utils.py).                        *)
(*                                                                         *)
(* Text is a sequence of code points, bytes a sequence of byte values.     *)
(* The empty sequence stands for Python's None / "" / b"" (all falsy) and, *)
(* inside a stored section, for a key that is not there: write_config      *)
(* never writes an empty value.  Serials are device serial numbers, never  *)
(* the parser's reserved DEFAULT section name.  File renames follow POSIX  *)
(* (os.rename replaces an existing destination).                           *)
(***************************************************************************)
EXTENDS Integers, Sequences, FiniteSets, TLC

VARIABLES
    \* the credential store: the files at <path>, <path>-temp, <path>-error
    fs,
    \* the last write_config call (arguments, I/O outcome, result), the files
    \* before it, and the events of the run so far
    call, pre, ops, faults, damage,
    \* validate_cert_name: the certificate in the file, the name given, the verdict
    certificate, robot_name, verdict,
    \* user_authentication inside a pairing: position, seconds waited, channel,
    \* RPCs issued, the device's response, the value returned, the error raised
    pc, elapsed, channel, rpcs, response, returned, error,
    \* the pairing: the device being paired, the store as the certificate stage left it
    identity, snapshot,
    \* read_configuration: the file at conf_file other than the store file of
    \* write_config, the settings_dir argument, the last call and its outcome,
    \* and the position in a pair-then-read round trip
    conf, settings_dir, lookup, stage,
    \* save_cert: the files of the certificate directory, the last call, the
    \* path it returned
    certs, saveArgs, saved,
    \* two write_config calls that run at the same time: for each, its
    \* position, its parser, its open file and its outcome
    tasks

storeVars == <<fs, call, pre, ops, faults, damage>>
certVars == <<certificate, robot_name, verdict>>
authVars == <<pc, elapsed, channel, rpcs, response, returned, error>>
pairVars == <<identity, snapshot>>
readVars == <<conf, settings_dir, lookup, stage>>
saveVars == <<certs, saveArgs, saved>>
concVars == <<tasks>>
vars == <<storeVars, certVars, authVars, pairVars, readVars, saveVars, concVars>>

(***************************************************************************)
(* Bounds of the model.                                                    *)
(***************************************************************************)
\* handler invocations (and outside damage events) in one run
MaxOps == 2
\* I/O faults and crashes in one run
MaxFaults == 1
\* outside damage events in one run
MaxDamage == 1
\* attributes in a certificate subject
MaxAttrs == 3
\* sections in the file that read_configuration reads
MaxSections == 2
\* bytes in a certificate file
MaxBytes == 2

(***************************************************************************)
(* Input domains.                                                          *)
(***************************************************************************)
Serials == {"00908e7e", "0dd1cdcf"}
None == <<>>
CertFiles == {<<99>>}
Ips == {<<49>>, <<50>>}
Names == {<<86>>}
\* b"a\xc3\xa9" ("a" and U+00E9), b"\xff" (not UTF-8)
GuidBytes == {<<97, 195, 169>>, <<255>>}

(***************************************************************************)
(* The store: an INI file, one section per serial.                         *)
(***************************************************************************)
NoSection == [present |-> FALSE, cert |-> None, ip |-> None, name |-> None, guid |-> None]
EmptySection == [present |-> TRUE, cert |-> None, ip |-> None, name |-> None, guid |-> None]
EmptyConfig == [s \in Serials |-> NoSection]

\* kind: "absent" | "ini" (complete, parsable) | "corrupt" (unparsable; data is
\* what the parser collects before it raises) | "partial" (a write that stopped
\* half way; data is the prefix that reached the disk) | "garbled" (bytes
\* that are not text in the locale's encoding)
Absent == [kind |-> "absent", data |-> EmptyConfig]
IniFile(config) == [kind |-> "ini", data |-> config]
CorruptFile(salvage) == [kind |-> "corrupt", data |-> salvage]
PartialFile == [kind |-> "partial", data |-> EmptyConfig]
GarbledFile == [kind |-> "garbled", data |-> EmptyConfig]

\* os.path.exists
Exists(file) == file.kind # "absent"

RECURSIVE Strip(_)
\* configparser strips the blanks around a value when it parses a line
Strip(text) ==
    IF text = <<>> THEN text
    ELSE IF Head(text) = 32 THEN Strip(Tail(text))
    ELSE IF text[Len(text)] = 32 THEN Strip(SubSeq(text, 1, Len(text) - 1))
    ELSE text

StripSection(sec) ==
    [present |-> sec.present, cert |-> Strip(sec.cert), ip |-> Strip(sec.ip),
     name |-> Strip(sec.name), guid |-> Strip(sec.guid)]

\* config.read(config_file): a missing file is skipped silently; a file with a
\* bad line raises ParsingError after the good lines were collected; a file
\* that cannot be decoded raises UnicodeDecodeError out of the text reader
ConfigRead(file) ==
    [config |-> IF file.kind = "absent" THEN EmptyConfig
                ELSE [s \in Serials |-> StripSection(file.data[s])],
     ParsingError |-> file.kind = "corrupt",
     UnicodeDecodeError |-> file.kind = "garbled"]

\* the except branch of the read: the unparsable file is renamed to -error
RenameToError(f) ==
    IF Exists(f.cfg) THEN [f EXCEPT !.err = f.cfg, !.cfg = Absent] ELSE f

\* bytes.decode("utf-8") for one- and two-byte sequences
RECURSIVE Utf8Decode(_)
Utf8Decode(bytes) ==
    IF bytes = <<>> THEN [ok |-> TRUE, text |-> <<>>]
    ELSE IF Head(bytes) < 128
         THEN LET rest == Utf8Decode(Tail(bytes))
              IN  [ok |-> rest.ok, text |-> <<Head(bytes)>> \o rest.text]
    ELSE IF /\ Head(bytes) >= 194 /\ Head(bytes) <= 223 /\ Len(bytes) >= 2
            /\ bytes[2] >= 128 /\ bytes[2] <= 191
         THEN LET rest == Utf8Decode(Tail(Tail(bytes)))
              IN  [ok |-> rest.ok,
                   text |-> <<(Head(bytes) - 192) * 64 + (bytes[2] - 128)>> \o rest.text]
    ELSE [ok |-> FALSE, text |-> <<>>]

\* a clear that creates the section but leaves an existing one as it is
ClearSection_Keep(config, serial) ==
    [config EXCEPT ![serial] = [@ EXCEPT !.present = TRUE]]

\* a clear that empties the whole store
ClearSection_All(config, serial) ==
    [s \in Serials |-> IF s = serial THEN EmptySection ELSE NoSection]

\* config[serial] = {}
ClearSection(config, serial) == [config EXCEPT ![serial] = EmptySection]

\* a merge that adds to the stored value instead of replacing it
SetFields_Append(config, serial, cert_file, ip, name, guidText) ==
    [config EXCEPT ![serial] =
        [present |-> TRUE, cert |-> @.cert \o cert_file, ip |-> @.ip \o ip,
         name |-> @.name \o name, guid |-> @.guid \o guidText]]

\* a merge that writes every parameter, given or not
SetFields_Replace(config, serial, cert_file, ip, name, guidText) ==
    [config EXCEPT ![serial] =
        [present |-> TRUE, cert |-> cert_file, ip |-> ip,
         name |-> name, guid |-> guidText]]

\* the four assignments config[serial][key] = value
SetFields(config, serial, cert_file, ip, name, guidText) ==
    [config EXCEPT ![serial] =
        [present |-> TRUE,
         cert |-> IF cert_file # None THEN cert_file ELSE @.cert,
         ip |-> IF ip # None THEN ip ELSE @.ip,
         name |-> IF name # None THEN name ELSE @.name,
         guid |-> IF guidText # None THEN guidText ELSE @.guid]]

\* lines 182-191: the in-memory merge.  config[serial] of a section that is
\* not there raises KeyError; a guid that is not UTF-8 raises on decode, and
\* the decode comes before the look-up of the section it is assigned into.
ApplyFields(config, serial, cert_file, ip, name, guid, clear) ==
    LET c1 == IF clear THEN ClearSection(config, serial) ELSE config
        others == cert_file # None \/ ip # None \/ name # None
        dec == Utf8Decode(guid)
    IN  IF others /\ ~c1[serial].present
        THEN [config |-> c1, raised |-> "KeyError"]
        ELSE IF ~dec.ok
        THEN [config |-> c1, raised |-> "UnicodeDecodeError"]
        ELSE IF guid # None /\ ~c1[serial].present
        THEN [config |-> c1, raised |-> "KeyError"]
        ELSE IF others \/ guid # None
        THEN [config |-> SetFields(c1, serial, cert_file, ip, name, dec.text),
              raised |-> "none"]
        ELSE [config |-> c1, raised |-> "none"]

\* an update that writes over the store file in place
RenameToTemp_Skip(f) == f

\* lines 192-194
RenameToTemp(f) ==
    IF Exists(f.cfg) THEN [f EXCEPT !.tmp = f.cfg, !.cfg = Absent] ELSE f

\* an except branch that re-raises without the rename back
Rollback_NoRestore(f) == f

\* lines 198-201: the except branch
Rollback(f) ==
    IF Exists(f.tmp) THEN [f EXCEPT !.cfg = f.tmp, !.tmp = Absent] ELSE f

\* lines 202-204: the else branch
RemoveTemp(f) ==
    IF Exists(f.tmp) THEN [f EXCEPT !.tmp = Absent] ELSE f

\* line 196-197, by what the operating system does:
\*   "ok"            the file is created and written in full
\*   "open_fails"    os.open raises, nothing is created
\*   "write_fails"   the file is created, the write raises half way
IoOutcomes == {"ok", "open_fails", "write_fails"}
\* the process dies: after the rename, inside the write, before the remove
CrashPoints == {"crash_after_rename", "crash_in_write", "crash_before_remove"}

WriteFile(f, config, io) ==
    CASE io \in {"ok", "crash_before_remove"} -> [f EXCEPT !.cfg = IniFile(config)]
      [] io \in {"write_fails", "crash_in_write"} -> [f EXCEPT !.cfg = PartialFile]
      [] OTHER -> f

\* lines 192-204
Persist(f, config, io) ==
    LET renamed == RenameToTemp(f)
        written == WriteFile(renamed, config, io)
    IN  CASE io = "ok" -> [fs |-> RemoveTemp(written), result |-> "ok"]
          [] io \in {"open_fails", "write_fails"} ->
                [fs |-> Rollback(written), result |-> "OSError"]
          [] OTHER -> [fs |-> written, result |-> "crashed"]

\* write_config as a whole: the files and the outcome it leaves
write_config(f, serial, cert_file, ip, name, guid, clear, io) ==
    LET rd == ConfigRead(f.cfg)
        f1 == IF rd.ParsingError THEN RenameToError(f) ELSE f
        ap == ApplyFields(rd.config, serial, cert_file, ip, name, guid, clear)
    IN  IF rd.UnicodeDecodeError
        THEN [fs |-> f, result |-> "UnicodeDecodeError"]
        ELSE IF ap.raised # "none"
        THEN [fs |-> f1, result |-> ap.raised]
        ELSE Persist(f1, ap.config, io)

(***************************************************************************)
(* validate_cert_name.  A certificate file holds PEM or not; a PEM          *)
(* certificate is its subject, a sequence of attributes in file order.     *)
(***************************************************************************)
\* the name of the device and another one
CommonNames == Names \cup {<<87>>}
Attributes ==
    {[oid |-> "commonName", value |-> v] : v \in CommonNames}
        \cup {[oid |-> "organizationName", value |-> <<65>>]}
Subjects == UNION {[1..n -> Attributes] : n \in 0..MaxAttrs}
Certificates ==
    {[pem |-> TRUE, subject |-> sub] : sub \in Subjects}
        \cup {[pem |-> FALSE, subject |-> <<>>]}

RECURSIVE SubjectLoop(_, _)
\* lines 93-101: the loop over cert.subject raises at the first common name
\* that differs from robot_name, and falls off its end otherwise
SubjectLoop(subject, name) ==
    IF subject = <<>> THEN "accepted"
    ELSE IF Head(subject).oid = "commonName" /\ Head(subject).value # name
         THEN "mismatch"
    ELSE SubjectLoop(Tail(subject), name)

\* lines 88-101: x509.load_pem_x509_certificate raises ValueError on a file
\* that is no PEM certificate
validate_cert_name(cert, name) ==
    IF ~cert.pem THEN "ValueError" ELSE SubjectLoop(cert.subject, name)

(***************************************************************************)
(* user_authentication.                                                    *)
(***************************************************************************)
\* line 139: result(timeout=15)
ReadyTimeout == 15

Codes == {"AUTHORIZED", "UNAUTHORIZED"}
NoResponse == [received |-> FALSE, code |-> "", client_token_guid |-> None]
Responses ==
    {[received |-> TRUE, code |-> c, client_token_guid |-> g] :
        c \in Codes, g \in GuidBytes \cup {None}}
NoValue == [given |-> FALSE, guid |-> None]

\* what is raised: every failure of user_authentication and of
\* validate_cert_name is a plain Exception, told apart by message and cause
NoError == [type |-> "none", message |-> "", cause |-> "none"]
\* lines 98-101
CertificateNameMismatchError ==
    [type |-> "Exception",
     message |-> "The name of the certificate does not match the name provided",
     cause |-> "none"]
\* lines 140-144
ChannelTimeoutError ==
    [type |-> "Exception", message |-> "Unable to connect to Vector",
     cause |-> "grpc.FutureTimeoutError"]
\* lines 157-160
AuthorizationDeniedError ==
    [type |-> "Exception",
     message |-> "Failed to authorize request: Please be sure to first set up Vector using the companion app.",
     cause |-> "none"]
\* lines 161-164
AuthorizationRpcError ==
    [type |-> "Exception",
     message |-> "Failed to authorize request: An unknown error occurred '{err}'",
     cause |-> "grpc.RpcError"]
\* an exception of a library call that is passed on as it is
Raised(type) == [type |-> type, message |-> "", cause |-> "none"]

\* a wait that ignores its deadline
DeadlineExpired_Never(waited) == FALSE

\* line 139-140: the wait for readiness gives up once the timeout has passed
DeadlineExpired(waited) == waited >= ReadyTimeout

\* a check that lets every response through
ResponseError_None(resp) == NoError

\* lines 153-160: any code other than AUTHORIZED raises
ResponseError(resp) ==
    IF resp.code # "AUTHORIZED" THEN AuthorizationDeniedError ELSE NoError

\* line 166
ReturnValue(resp) == [given |-> TRUE, guid |-> resp.client_token_guid]

(***************************************************************************)
(* read_configuration (pyHAVector/utils.py).  The file it reads is a       *)
(* sequence of sections in file order; a section is the parser's proxy:    *)
(* its name as written and its options.  A path is the sequence of its     *)
(* components.                                                             *)
(***************************************************************************)
\* the serials as text
SerialText ==
    [s \in Serials |->
        IF s = "00908e7e" THEN <<48, 48, 57, 48, 56, 101, 55, 101>>
        ELSE <<48, 100, 100, 49, 99, 100, 99, 102>>]

\* str.lower and str.upper on ASCII text
Lower(text) ==
    IF text = <<>> THEN <<>>
    ELSE [i \in 1..Len(text) |-> IF text[i] \in 65..90 THEN text[i] + 32 ELSE text[i]]
Upper(text) ==
    IF text = <<>> THEN <<>>
    ELSE [i \in 1..Len(text) |-> IF text[i] \in 97..122 THEN text[i] - 32 ELSE text[i]]

Fields == {"cert", "ip", "name", "guid"}
NoOptions == [cert |-> None, ip |-> None, name |-> None, guid |-> None]
NoProxy == [name |-> None, options |-> NoOptions]
\* the proxy of the parser's DEFAULT section, which parser.items() yields first
DefaultProxy == [name |-> <<68, 69, 70, 65, 85, 76, 84>>, options |-> NoOptions]

AbsentConf == [kind |-> "absent", sections |-> <<>>]
IniConf(sections) == [kind |-> "ini", sections |-> sections]
CorruptConf == [kind |-> "corrupt", sections |-> <<>>]

\* functions.py lines 172-173: Path.home() / ".anki_vector" / "sdk_config.ini"
config_file == <<"~", ".anki_vector", "sdk_config.ini">>
\* utils.py lines 149-150: home + "/config.ini"
conf_file(dir) == (IF dir # None THEN dir ELSE <<"~">>) \o <<"config.ini">>

\* the store file of write_config as the parser of read_configuration sees it
StoreAsConf(file) ==
    CASE file.kind = "absent" -> AbsentConf
      [] file.kind = "ini" ->
            LET proxy(ser) ==
                    [name |-> SerialText[ser],
                     options |-> [f \in Fields |-> file.data[ser][f]]]
                first == IF file.data["00908e7e"].present
                         THEN <<proxy("00908e7e")>> ELSE <<>>
                second == IF file.data["0dd1cdcf"].present
                          THEN <<proxy("0dd1cdcf")>> ELSE <<>>
            IN  IniConf(first \o second)
      [] OTHER -> CorruptConf

\* a test that takes the first of several sections
OnlyOne_First(sections) == Len(sections) >= 1

\* line 160: len(sections) == 1
OnlyOne(sections) == Len(sections) = 1

\* a look-up with the serial as it was given
Normalise_AsGiven(serial) == serial

\* line 172: serial = serial.lower()
Normalise(serial) == Lower(serial)

RECURSIVE LowerKeys(_, _)
\* line 169: {k.lower(): v for k, v in parser.items()}.  A dict keeps a key
\* at the place of its first insertion and with the value of its last.
LowerKeys(items, dict) ==
    IF items = <<>> THEN dict
    ELSE LET k == Lower(Head(items).name)
             at == {i \in 1..Len(dict) : dict[i].key = k}
         IN  LowerKeys(Tail(items),
                       IF at = {}
                       THEN Append(dict, [key |-> k, value |-> Head(items)])
                       ELSE [dict EXCEPT ![CHOOSE i \in at : TRUE].value = Head(items)])

\* lines 183-188: some option of the section has the name as its value,
\* as it is or ignoring case
Matches(proxy, name) ==
    \E f \in Fields :
        /\ proxy.options[f] # None
        /\ \/ proxy.options[f] = name
           \/ Lower(proxy.options[f]) = Lower(name)

\* the messages of the VectorConfigurationException
NoConfigurationFile == "Could not find the sdk configuration file."
MultipleSerials == "Found multiple robot serial numbers."
SerialNotFound == "Could not find matching robot info for given serial number"
NameNotFound == "Could not find matching robot info for given name"

Fails(message) ==
    [raised |-> "VectorConfigurationException", message |-> message, value |-> NoProxy]
Returns(proxy) == [raised |-> "none", message |-> "", value |-> proxy]

\* lines 149-195, on the file that is at conf_file
read_configuration(file, serial, name) ==
    IF file.kind = "corrupt"
    THEN [raised |-> "ParsingError", message |-> "", value |-> NoProxy]
    ELSE LET sections == file.sections
             neither == serial = None /\ name = None
         IN  IF sections = <<>> THEN Fails(NoConfigurationFile)
             ELSE IF neither /\ ~OnlyOne(sections) THEN Fails(MultipleSerials)
             ELSE LET wanted == IF neither THEN sections[1].name ELSE serial
                      config == LowerKeys(<<DefaultProxy>> \o sections, <<>>)
                  IN  IF wanted # None
                      THEN LET at == {i \in 1..Len(config) :
                                         config[i].key = Normalise(wanted)}
                           IN  IF at = {} THEN Fails(SerialNotFound)
                               ELSE Returns(config[CHOOSE i \in at : TRUE].value)
                      ELSE LET hits == {i \in 1..Len(config) :
                                           Matches(config[i].value, name)}
                           IN  IF hits = {} THEN Fails(NameNotFound)
                               ELSE Returns(config[CHOOSE i \in hits :
                                                      \A j \in hits : i <= j].value)

(***************************************************************************)
(* save_cert (anki_vector/functions.py).  The certificate directory is its *)
(* files by name; a file is its bytes.                                     *)
(***************************************************************************)
ByteValues == {0, 255}
ByteStrings == {<<>>} \cup UNION {[1..n -> ByteValues] : n \in 1..MaxBytes}
NoFile == [exists |-> FALSE, bytes |-> <<>>]

\* line 81: f"{name}-{serial}.cert"
CertFileName(name, serial) ==
    name \o <<45>> \o SerialText[serial] \o <<46, 99, 101, 114, 116>>
CertFileNames == {CertFileName(n, s) : n \in CommonNames, s \in Serials}
EmptyDir == [p \in CertFileNames |-> NoFile]

\* line 82: os.open(cert_file, os.O_WRONLY | os.O_CREAT, 0o600) creates a
\* missing file and opens an existing one with its content
OpenForWrite(file) == [exists |-> TRUE, bytes |-> file.bytes]

\* line 83: file.write(cert) at the start of the open file; what the file
\* holds beyond the written bytes stays
WriteAtStart(file, data) ==
    [file EXCEPT !.bytes =
        IF Len(data) >= Len(@) THEN data
        ELSE data \o SubSeq(@, Len(data) + 1, Len(@))]

\* lines 77-84
save_cert(cert, name, serial, dir) ==
    LET cert_file == CertFileName(name, serial)
    IN  [dir |-> [dir EXCEPT ![cert_file] = WriteAtStart(OpenForWrite(@), cert)],
         cert_file |-> cert_file]

(***************************************************************************)
(* The credential store under a sequence of updates.                       *)
(***************************************************************************)
NoCall ==
    [serial |-> "", cert_file |-> None, ip |-> None, name |-> None, guid |-> None,
     clear |-> FALSE, io |-> "none", result |-> "none", again |-> FALSE]

\* what a completed pairing leaves for a serial: write_config(serial,
\* cert_file, ip, name, guid, clear=True) with guid = b"a"
PairedRecord ==
    [present |-> TRUE, cert |-> <<99>>, ip |-> <<49>>, name |-> <<86>>, guid |-> <<97>>]

\* a fresh installation, or a store left by earlier complete pairings
InitStores ==
    {Absent} \cup {IniFile(c) : c \in [Serials -> {NoSection, PairedRecord}]}

NoCertificate == [pem |-> FALSE, subject |-> <<>>]
NoIdentity == [serial |-> "", ip |-> None, name |-> None, cert_file |-> None]
NoFiles == [cfg |-> Absent, tmp |-> Absent, err |-> Absent]

\* the parts of the state a specification does not exercise
StoreIdle ==
    /\ call = NoCall /\ pre = fs /\ ops = 0 /\ faults = 0 /\ damage = 0
CertIdle ==
    /\ certificate = NoCertificate /\ robot_name = None /\ verdict = "pending"
AuthIdle ==
    /\ pc = "Start" /\ elapsed = 0 /\ channel = "none" /\ rpcs = 0
    /\ response = NoResponse /\ returned = NoValue /\ error = NoError
PairIdle ==
    /\ identity = NoIdentity /\ snapshot = NoFiles
NoLookup ==
    [serial |-> None, name |-> None, raised |-> "pending", message |-> "",
     value |-> NoProxy]
NoTask ==
    [pc |-> "idle", config |-> EmptyConfig, fd |-> "none", result |-> "none",
     clear |-> FALSE, ip |-> None]
ConcIdle == tasks = [p \in Serials |-> NoTask]
NoSave == [cert |-> <<>>, name |-> None, serial |-> ""]
SaveIdle ==
    /\ certs = EmptyDir /\ saveArgs = NoSave /\ saved = None
ReadIdle ==
    /\ conf = AbsentConf /\ settings_dir = None /\ lookup = NoLookup /\ stage = "idle"

InitStore ==
    /\ fs \in {[cfg |-> c, tmp |-> Absent, err |-> Absent] : c \in InitStores}
    /\ StoreIdle /\ CertIdle /\ AuthIdle /\ PairIdle /\ ReadIdle /\ SaveIdle /\ ConcIdle

SameArgs(c, serial, cert_file, ip, name, guid, clear) ==
    /\ c.serial = serial /\ c.cert_file = cert_file /\ c.ip = ip
    /\ c.name = name /\ c.guid = guid /\ c.clear = clear

Update(serial, cert_file, ip, name, guid, clear, io) ==
    /\ ops < MaxOps
    /\ io # "ok" => faults < MaxFaults
    /\ LET r == write_config(fs, serial, cert_file, ip, name, guid, clear, io)
       IN  \* a fault in a write that was never attempted is no different input
           /\ io # "ok" => r.result \notin {"KeyError", "UnicodeDecodeError"}
           /\ fs' = r.fs
           /\ call' = [serial |-> serial, cert_file |-> cert_file, ip |-> ip,
                       name |-> name, guid |-> guid, clear |-> clear,
                       io |-> io, result |-> r.result,
                       again |-> /\ call.io = "ok"
                                 /\ io = "ok"
                                 /\ SameArgs(call, serial, cert_file, ip, name, guid, clear)]
    /\ faults' = IF io # "ok" THEN faults + 1 ELSE faults
    /\ pre' = fs
    /\ ops' = ops + 1
    /\ UNCHANGED <<concVars, readVars, saveVars, damage, certVars, authVars, pairVars>>

\* damage from outside the program: a bad line at the top of the store file
\* (nothing parses) or inside it (everything else parses)
Damage(keep) ==
    /\ ops < MaxOps
    /\ damage < MaxDamage
    /\ fs.cfg.kind = "ini"
    /\ fs' = [fs EXCEPT !.cfg = CorruptFile(IF keep THEN fs.cfg.data ELSE EmptyConfig)]
    /\ call' = NoCall
    /\ pre' = fs
    /\ ops' = ops + 1
    /\ damage' = damage + 1
    /\ UNCHANGED <<concVars, readVars, saveVars, faults, certVars, authVars, pairVars>>

\* damage from outside the program: the store file is overwritten with
\* bytes that are not text
Garble ==
    /\ ops < MaxOps
    /\ damage < MaxDamage
    /\ fs.cfg.kind = "ini"
    /\ fs' = [fs EXCEPT !.cfg = GarbledFile]
    /\ call' = NoCall
    /\ pre' = fs
    /\ ops' = ops + 1
    /\ damage' = damage + 1
    /\ UNCHANGED <<concVars, readVars, saveVars, faults, certVars, authVars, pairVars>>

NextStore ==
    \/ \E serial \in Serials, cert_file \in CertFiles \cup {None}, ip \in Ips \cup {None},
          name \in Names \cup {None}, guid \in GuidBytes \cup {None}, clear \in BOOLEAN,
          io \in IoOutcomes \cup CrashPoints :
            Update(serial, cert_file, ip, name, guid, clear, io)
    \/ \E keep \in BOOLEAN : Damage(keep)
    \/ Garble

Spec == InitStore /\ [][NextStore]_vars

(***************************************************************************)
(* Properties of the credential store.                                     *)
(***************************************************************************)
\* the update that just returned normally
Returned == call.result = "ok"
\* the guid of the model's inputs as text
GuidAsText(guid) ==
    IF guid = <<97, 195, 169>> THEN <<97, 233>> ELSE guid
\* a previous update died between the rename to -temp and the write
CrashedBefore == pre.cfg.kind = "absent" /\ pre.tmp.kind = "ini"

\* C1: after a crash that left the store only as the -temp file, the next
\* update keeps every record of the -temp file: the records of the other
\* serials unchanged, the record of the updated serial present.
C1_CrashRecovery ==
    (Returned /\ CrashedBefore) =>
        /\ fs.cfg.kind = "ini"
        /\ \A s \in Serials :
              pre.tmp.data[s].present =>
                 /\ fs.cfg.data[s].present
                 /\ s # call.serial => fs.cfg.data[s] = pre.tmp.data[s]

\* C2 as stated: a failed create or write of an update that started with an
\* existing store (parsable or not) leaves the prior content at the primary
\* path and no -temp file, and raises.
C2_RollbackAnyStore ==
    (call.io \in {"open_fails", "write_fails"} /\ Exists(pre.cfg)) =>
        /\ call.result = "OSError"
        /\ fs.cfg = pre.cfg
        /\ ~Exists(fs.tmp)

\* C2, amended: a failed create or write of an update that started with an
\* existing parsable store leaves exactly the prior content at the primary
\* path and no -temp file, and the error is raised to the caller.
C2_RollbackParsableStore ==
    (call.io \in {"open_fails", "write_fails"} /\ pre.cfg.kind = "ini") =>
        /\ call.result = "OSError"
        /\ fs.cfg = pre.cfg
        /\ ~Exists(fs.tmp)

C2_Witness ==
    /\ call.io = "write_fails"
    /\ call.result = "OSError"
    /\ pre.cfg.kind = "ini"
    /\ \E s \in Serials : pre.cfg.data[s].present

\* C8: after a successful update(serial, guid = g, clear = true) the record of
\* the serial holds g as text and no cert, ip or name.
C8_ClearReplaces ==
    (/\ Returned /\ call.clear /\ call.guid # None
     /\ call.cert_file = None /\ call.ip = None /\ call.name = None) =>
        /\ fs.cfg.kind = "ini"
        /\ fs.cfg.data[call.serial] =
              [present |-> TRUE, cert |-> None, ip |-> None, name |-> None,
               guid |-> GuidAsText(call.guid)]

C8_Witness ==
    /\ Returned /\ call.clear /\ call.guid = <<97, 195, 169>>
    /\ call.cert_file = None /\ call.ip = None /\ call.name = None
    /\ pre.cfg.kind = "ini"
    /\ pre.cfg.data[call.serial].cert # None
    /\ pre.cfg.data[call.serial].ip # None
    /\ pre.cfg.data[call.serial].name # None

\* C9: the same update with clear = false applied a second time in a row
\* leaves the store as the first application left it: in the run, and when
\* applied once more to whatever store an update has just left.
C9_Idempotent ==
    /\ (call.again /\ ~call.clear) => fs.cfg = pre.cfg
    /\ (call.io = "ok" /\ ~call.clear) =>
          write_config(fs, call.serial, call.cert_file, call.ip, call.name,
                       call.guid, call.clear, "ok").fs.cfg = fs.cfg

C9_Witness ==
    /\ call.again /\ ~call.clear /\ Returned
    /\ call.ip = <<50>>
    /\ fs.cfg.kind = "ini"
    /\ fs.cfg.data[call.serial].ip = <<50>>

\* C10: a successful update with clear = false of an existing record sets
\* each field given non-empty and keeps each field not given.
C10_PartialMerge ==
    (/\ Returned /\ ~call.clear
     /\ pre.cfg.kind = "ini" /\ pre.cfg.data[call.serial].present) =>
        LET old == pre.cfg.data[call.serial]
            new == fs.cfg.data[call.serial]
        IN  /\ fs.cfg.kind = "ini"
            /\ new.present
            /\ new.cert = IF call.cert_file # None THEN call.cert_file ELSE old.cert
            /\ new.ip = IF call.ip # None THEN call.ip ELSE old.ip
            /\ new.name = IF call.name # None THEN call.name ELSE old.name
            /\ new.guid = IF call.guid # None THEN GuidAsText(call.guid) ELSE old.guid

C10_Witness ==
    /\ Returned /\ ~call.clear
    /\ pre.cfg.kind = "ini" /\ pre.cfg.data[call.serial].present
    /\ call.cert_file = None /\ pre.cfg.data[call.serial].cert # None
    /\ call.ip # None /\ pre.cfg.data[call.serial].ip # None
    /\ call.ip # pre.cfg.data[call.serial].ip
    /\ fs.cfg.data[call.serial].ip = call.ip

\* the update started with a store file that exists and cannot be parsed
Unparsable(file) == file.kind \in {"corrupt", "garbled"}
\* the update was given arguments it can store and met no I/O fault
Sound == call.io = "ok" /\ Utf8Decode(call.guid).ok

\* C11: an update that starts with an existing, unparsable store file does
\* not fail: the unparsable file is at <path>-error afterwards, byte for
\* byte, and the primary path holds a new parsable store with a record for
\* the updated serial.
C11_CorruptionNeverBlocks ==
    (Sound /\ Unparsable(pre.cfg)) =>
        /\ Returned
        /\ fs.err = pre.cfg
        /\ fs.cfg.kind = "ini"
        /\ fs.cfg.data[call.serial].present

\* C12: an update that finds no store file succeeds for every serial, every
\* choice of fields and either value of clear, and leaves a parsable store
\* whose record for the serial holds exactly the non-empty fields given.
C12_MissingStore ==
    (Sound /\ ~Exists(pre.cfg)) =>
        /\ Returned
        /\ fs.cfg.kind = "ini"
        /\ LET new == fs.cfg.data[call.serial]
           IN  /\ new.cert = call.cert_file
               /\ new.ip = call.ip
               /\ new.name = call.name
               /\ new.guid = GuidAsText(call.guid)

\* the content the update that just ran was to write
NewContent ==
    IniFile(ApplyFields(ConfigRead(pre.cfg).config, call.serial, call.cert_file,
                        call.ip, call.name, call.guid, call.clear).config)
\* an update that got as far as the rename, of a parsable store with no
\* -temp file left over
Ordered ==
    /\ pre.cfg.kind = "ini" /\ ~Exists(pre.tmp)
    /\ call.result \in {"ok", "OSError", "crashed"}

\* C20: in an update of an existing parsable store with no stale -temp file
\* the store is renamed to -temp before anything is written, and -temp is
\* removed only after the write has succeeded: wherever the update stops,
\* the complete prior content is at the primary path or at -temp, or the
\* complete new content is at the primary path; after success there is no
\* -temp file.
C20_WriteOrdering ==
    Ordered =>
        /\ fs.cfg = pre.cfg \/ fs.tmp = pre.cfg \/ fs.cfg = NewContent
        /\ call.io = "crash_after_rename" => (~Exists(fs.cfg) /\ fs.tmp = pre.cfg)
        /\ call.io = "crash_in_write" => (fs.cfg = PartialFile /\ fs.tmp = pre.cfg)
        /\ call.io = "crash_before_remove" => (fs.cfg = NewContent /\ fs.tmp = pre.cfg)
        /\ Returned => (fs.cfg = NewContent /\ ~Exists(fs.tmp))

C20_Witness ==
    /\ Ordered
    /\ call.io = "crash_in_write"
    /\ fs.cfg = PartialFile
    /\ fs.tmp = pre.cfg
    /\ \E s \in Serials : pre.cfg.data[s].present

\* C22: a successful update of a parsable store, with either value of
\* clear, leaves the record of every other serial as it was: present if it
\* was present, with every field value unchanged.
C22_OnlyOwnSerial ==
    (Returned /\ pre.cfg.kind = "ini") =>
        /\ fs.cfg.kind = "ini"
        /\ \A s \in Serials \ {call.serial} : fs.cfg.data[s] = pre.cfg.data[s]

C22_Witness ==
    /\ Returned /\ pre.cfg.kind = "ini" /\ call.clear
    /\ pre.cfg.data[call.serial].present
    /\ fs.cfg.data[call.serial] # pre.cfg.data[call.serial]
    /\ \E s \in Serials \ {call.serial} :
          /\ pre.cfg.data[s] = PairedRecord
          /\ fs.cfg.data[s] = PairedRecord

(***************************************************************************)
(* validate_cert_name on every certificate and name.                       *)
(***************************************************************************)
InitCert ==
    /\ certificate \in Certificates
    /\ robot_name \in CommonNames
    /\ verdict = "pending"
    /\ fs = NoFiles
    /\ StoreIdle /\ AuthIdle /\ PairIdle /\ ReadIdle /\ SaveIdle /\ ConcIdle

Validate ==
    /\ verdict = "pending"
    /\ verdict' = validate_cert_name(certificate, robot_name)
    /\ UNCHANGED <<concVars, readVars, saveVars, certificate, robot_name, storeVars, authVars, pairVars>>

NextCert == Validate

SpecCert == InitCert /\ [][NextCert]_vars

\* the common names of the certificate that was validated
CommonNamesOf(subject) ==
    {subject[i].value : i \in {j \in 1..Len(subject) : subject[j].oid = "commonName"}}
Validated == verdict # "pending" /\ certificate.pem

\* C3: a certificate whose subject has no common name fails validation with
\* the name-mismatch error, whatever name is expected.
C3_NoCommonNameIsMismatch ==
    (Validated /\ CommonNamesOf(certificate.subject) = {}) => verdict = "mismatch"

\* C4: validation succeeds exactly when some common name of the subject
\* equals the expected name, and fails with the name-mismatch error otherwise.
C4_AcceptedIffSomeCommonNameMatches ==
    Validated =>
        IF robot_name \in CommonNamesOf(certificate.subject)
        THEN verdict = "accepted"
        ELSE verdict = "mismatch"

(***************************************************************************)
(* One pairing: the certificate stage, user_authentication, the guid       *)
(* stage.  The stages are sequenced as section 4.6 of the specification    *)
(* describes them; user_authentication is stepped as the code runs.        *)
(***************************************************************************)
Identities ==
    {[serial |-> s, ip |-> <<49>>, name |-> <<86>>, cert_file |-> <<99>>] : s \in Serials}
\* what the cloud may hand out for a serial
FetchedCertificates == {c \in Certificates : Len(c.subject) <= 1}

InitPair ==
    /\ fs \in {[cfg |-> c, tmp |-> Absent, err |-> Absent] : c \in InitStores}
    /\ identity \in Identities
    /\ snapshot = NoFiles
    /\ StoreIdle /\ CertIdle /\ AuthIdle /\ ReadIdle /\ SaveIdle /\ ConcIdle

\* fetch, persist and validate the certificate, then store its path with
\* the ip and the name under the serial
CertStage(cert) ==
    /\ pc = "Start"
    /\ certificate' = cert
    /\ robot_name' = identity.name
    /\ verdict' = validate_cert_name(cert, identity.name)
    /\ IF verdict' = "accepted"
       THEN LET r == write_config(fs, identity.serial, identity.cert_file,
                                  identity.ip, identity.name, None, TRUE, "ok")
            IN  /\ fs' = r.fs
                /\ snapshot' = r.fs
                /\ pc' = "Idle"
                /\ error' = NoError
       ELSE /\ pc' = "Failed"
            /\ error' = IF verdict' = "mismatch" THEN CertificateNameMismatchError
                        ELSE Raised(verdict')
            /\ UNCHANGED <<fs, snapshot>>
    /\ UNCHANGED <<concVars, readVars, saveVars, call, pre, ops, faults, damage, identity,
                   elapsed, channel, rpcs, response, returned>>

\* lines 123-134: grpc.secure_channel
OpenChannel ==
    /\ pc = "Idle"
    /\ pc' = "ChannelOpening"
    /\ channel' = "open"
    /\ elapsed' = 0
    /\ UNCHANGED <<concVars, readVars, saveVars, storeVars, certVars, pairVars, rpcs, response, returned, error>>

\* a second of the wait at line 139 passes
Tick ==
    /\ pc = "ChannelOpening"
    /\ elapsed < ReadyTimeout
    /\ elapsed' = elapsed + 1
    /\ UNCHANGED <<concVars, readVars, saveVars, storeVars, certVars, pairVars, pc, channel, rpcs, response,
                   returned, error>>

\* line 139: the channel reports ready before the wait has given up
ChannelReady ==
    /\ pc = "ChannelOpening"
    /\ ~DeadlineExpired(elapsed)
    /\ pc' = "ChannelReady"
    /\ UNCHANGED <<concVars, readVars, saveVars, storeVars, certVars, pairVars, elapsed, channel, rpcs, response,
                   returned, error>>

\* a wait that starts over with a new channel when its timeout has passed
Timeout_Retry ==
    /\ pc = "ChannelOpening"
    /\ DeadlineExpired(elapsed)
    /\ pc' = "Idle"
    /\ UNCHANGED <<concVars, readVars, saveVars, storeVars, certVars, pairVars, elapsed, channel,
                   rpcs, response, returned, error>>

\* lines 140-144: grpc.FutureTimeoutError becomes the connection failure
Timeout ==
    /\ pc = "ChannelOpening"
    /\ DeadlineExpired(elapsed)
    /\ pc' = "TimedOut"
    /\ error' = ChannelTimeoutError
    /\ UNCHANGED <<concVars, readVars, saveVars, storeVars, certVars, pairVars, elapsed, channel, rpcs, response,
                   returned>>

\* lines 147-152: the request is built and sent
SendRequest ==
    /\ pc = "ChannelReady"
    /\ pc' = "AuthRequested"
    /\ rpcs' = rpcs + 1
    /\ UNCHANGED <<concVars, readVars, saveVars, storeVars, certVars, pairVars, elapsed, channel, response,
                   returned, error>>

\* lines 152-160 and 166: the device answers
Respond(resp) ==
    /\ pc = "AuthRequested"
    /\ response' = resp
    /\ error' = ResponseError(resp)
    /\ IF error' = NoError
       THEN pc' = "Authorized" /\ returned' = ReturnValue(resp)
       ELSE pc' = "Denied" /\ UNCHANGED returned
    /\ UNCHANGED <<concVars, readVars, saveVars, storeVars, certVars, pairVars, elapsed, channel, rpcs>>

\* lines 161-164: the call raises grpc.RpcError
RpcFails ==
    /\ pc = "AuthRequested"
    /\ pc' = "RpcFailed"
    /\ error' = AuthorizationRpcError
    /\ UNCHANGED <<concVars, readVars, saveVars, storeVars, certVars, pairVars, elapsed, channel, rpcs, response,
                   returned>>

\* the guid that user_authentication returned is merged into the record
PersistGuid ==
    /\ pc = "Authorized"
    /\ LET r == write_config(fs, identity.serial, None, None, None,
                             returned.guid, FALSE, "ok")
       IN  /\ fs' = r.fs
           /\ pc' = IF r.result = "ok" THEN "Paired" ELSE "Failed"
           /\ error' = IF r.result = "ok" THEN NoError ELSE Raised(r.result)
    /\ UNCHANGED <<concVars, readVars, saveVars, call, pre, ops, faults, damage, certVars, pairVars,
                   elapsed, channel, rpcs, response, returned>>

NextPair ==
    \/ \E cert \in FetchedCertificates : CertStage(cert)
    \/ OpenChannel
    \/ Tick
    \/ ChannelReady
    \/ Timeout
    \/ SendRequest
    \/ \E resp \in Responses : Respond(resp)
    \/ RpcFails
    \/ PersistGuid

SpecPair == InitPair /\ [][NextPair]_vars

\* time passes, and the wait returns when its timeout has passed
LivePair == SpecPair /\ WF_vars(Tick) /\ WF_vars(Timeout)

Denial == response.received /\ response.code # "AUTHORIZED"

\* C5: a guid is returned exactly when the device answered AUTHORIZED (which
\* takes a ready channel and one completed RPC), and it is the guid of that
\* response; any other code ends in the denial, a transport failure in the
\* RPC failure, and neither returns a guid.
C5_GuidOnlyWhenAuthorized ==
    /\ returned.given <=> (response.received /\ response.code = "AUTHORIZED")
    /\ returned.given => (returned.guid = response.client_token_guid /\ rpcs = 1)
    /\ Denial => (pc = "Denied" /\ error = AuthorizationDeniedError)
    /\ pc = "RpcFailed" =>
          /\ error = AuthorizationRpcError
          /\ error # AuthorizationDeniedError
          /\ ~response.received
    /\ pc \in {"ChannelOpening", "ChannelReady", "TimedOut"} => ~response.received

C5_Witness ==
    /\ pc = "Authorized"
    /\ returned = [given |-> TRUE, guid |-> <<97, 195, 169>>]
    /\ response.code = "AUTHORIZED"

\* C6: a wait for readiness always ends, and when it ends by the deadline
\* the invocation has failed with the channel timeout, has issued no RPC
\* and returns no guid.
C6_BoundedWait ==
    /\ [](pc = "TimedOut" =>
            (error = ChannelTimeoutError /\ rpcs = 0 /\ ~returned.given))
    /\ (pc = "ChannelOpening") ~> (pc \in {"ChannelReady", "TimedOut"})

C6_Witness ==
    pc = "TimedOut" /\ elapsed = ReadyTimeout /\ error = ChannelTimeoutError

\* C7: when the device answers with a code other than AUTHORIZED, the
\* pairing has failed with the denial and the store is as the certificate
\* stage left it: the certificate path is there, no guid is.
C7_DenialKeepsCertificate ==
    Denial =>
        /\ error = AuthorizationDeniedError
        /\ fs = snapshot
        /\ fs.cfg.kind = "ini"
        /\ fs.cfg.data[identity.serial].cert = identity.cert_file
        /\ fs.cfg.data[identity.serial].guid = None

C7_Witness ==
    /\ pc = "Denied"
    /\ response.code = "UNAUTHORIZED"
    /\ response.client_token_guid # None
    /\ fs.cfg.data[identity.serial].cert = identity.cert_file

\* the steps of one invocation of user_authentication
AuthTransitions ==
    {<<"Idle", "ChannelOpening">>,
     <<"ChannelOpening", "ChannelReady">>, <<"ChannelOpening", "TimedOut">>,
     <<"ChannelReady", "AuthRequested">>,
     <<"AuthRequested", "Authorized">>, <<"AuthRequested", "Denied">>,
     <<"AuthRequested", "RpcFailed">>}
AuthRunning == {"Idle", "ChannelOpening", "ChannelReady", "AuthRequested"}
AuthFailed == {"Denied", "RpcFailed", "TimedOut"}

\* C18: one invocation goes Idle, ChannelOpening, ChannelReady,
\* AuthRequested and ends in Authorized, Denied, RpcFailed or TimedOut, with
\* no step back: it opens one channel, when none was open; it issues the RPC
\* at most once, from ChannelReady; after a denial, an RPC failure or a
\* timeout nothing more happens.
C18_LinearNoRetry ==
    /\ [][(pc \in AuthRunning) => (pc' = pc \/ <<pc, pc'>> \in AuthTransitions)]_vars
    /\ [][~(pc \in AuthFailed)]_vars
    /\ [][channel' # channel =>
            (pc = "Idle" /\ pc' = "ChannelOpening" /\ channel = "none"
             /\ channel' = "open")]_vars
    /\ [][pc = "Idle" /\ pc' # pc => (channel = "none" /\ channel' = "open")]_vars
    /\ [][rpcs' # rpcs =>
            (pc = "ChannelReady" /\ pc' = "AuthRequested" /\ rpcs = 0 /\ rpcs' = 1)]_vars
    /\ [](pc \in {"Idle", "ChannelOpening", "ChannelReady", "TimedOut"} => rpcs = 0)
    /\ [](pc \in {"AuthRequested", "Authorized", "Denied", "RpcFailed"} => rpcs = 1)

C18_Witness ==
    pc = "RpcFailed" /\ rpcs = 1 /\ channel = "open" /\ elapsed > 0

\* C19: when the invocation has failed with the channel timeout, the channel
\* it opened has been closed.
C19_TimeoutClosesChannel ==
    pc = "TimedOut" => channel = "closed"

(***************************************************************************)
(* read_configuration on every file, serial and name.                      *)
(***************************************************************************)
\* section names: a serial, the same serial in upper case, another serial
ReadKeys == {SerialText[s] : s \in Serials} \cup {Upper(SerialText["00908e7e"])}
\* names in both cases, and another name
ReadNames == {<<86>>, <<118>>, <<87>>}
ReadOptions ==
    {[cert |-> <<99>>, ip |-> <<49>>, name |-> n, guid |-> <<97>>] : n \in ReadNames}
        \cup {NoOptions}
Proxies == {[name |-> k, options |-> o] : k \in ReadKeys, o \in ReadOptions}
\* the parser keeps one section per name
SectionLists ==
    {<<>>} \cup
    UNION {{q \in [1..n -> Proxies] :
               \A i, j \in 1..n : i # j => q[i].name # q[j].name} : n \in 1..MaxSections}
ConfFiles == {AbsentConf, CorruptConf} \cup {IniConf(q) : q \in SectionLists}
SettingsDirs == {None, <<"vector_config">>, <<"~", ".anki_vector">>}
\* the serials asked for: those of the sections, and one in no file
AskedSerials == ReadKeys \cup {Upper(SerialText["0dd1cdcf"])} \cup {<<97, 98>>}
\* the names asked for: those of the sections, an ip, and one in no file
AskedNames == ReadNames \cup {<<49>>, <<88>>}

\* the file at a path
FileAt(path) == IF path = config_file THEN StoreAsConf(fs.cfg) ELSE conf

InitRead ==
    /\ conf \in ConfFiles
    /\ settings_dir \in SettingsDirs
    /\ lookup = NoLookup
    /\ stage = "idle"
    /\ fs = NoFiles
    /\ StoreIdle /\ CertIdle /\ AuthIdle /\ PairIdle /\ SaveIdle /\ ConcIdle

Read(serial, name) ==
    /\ stage = "idle"
    /\ lookup.raised = "pending"
    /\ LET r == read_configuration(FileAt(conf_file(settings_dir)), serial, name)
       IN  lookup' = [serial |-> serial, name |-> name, raised |-> r.raised,
                      message |-> r.message, value |-> r.value]
    /\ UNCHANGED <<concVars, conf, settings_dir, stage, storeVars, certVars, authVars,
                   pairVars, saveVars>>

NextRead ==
    \E serial \in AskedSerials \cup {None}, name \in AskedNames \cup {None} :
        Read(serial, name)

SpecRead == InitRead /\ [][NextRead]_vars

\* a read of a parsable (or missing) file has ended
ReadDone == lookup.raised # "pending" /\ conf.kind # "corrupt"
ConfigurationError == lookup.raised = "VectorConfigurationException"
\* the read returned the i-th section of the file
ReturnedSection(i) == lookup.raised = "none" /\ lookup.value = conf.sections[i]

\* C13: a read with neither serial nor name returns the record of the file
\* when the file has exactly one, and fails with the configuration error when
\* it has none or more than one.
C13_NoSelectorNeedsOneRecord ==
    (ReadDone /\ lookup.serial = None /\ lookup.name = None) =>
        IF Len(conf.sections) = 1
        THEN ReturnedSection(1)
        ELSE /\ ConfigurationError
             /\ lookup.value = NoProxy
             /\ lookup.message =
                   IF conf.sections = <<>> THEN NoConfigurationFile ELSE MultipleSerials

C13_Witness ==
    /\ ReadDone /\ lookup.serial = None /\ lookup.name = None
    /\ Len(conf.sections) = 2
    /\ lookup.message = MultipleSerials

\* C14: a read with a serial returns a record whose section name equals the
\* serial ignoring case, whatever the name argument is, and fails with the
\* configuration error exactly when no section name does.
C14_SerialLookup ==
    (ReadDone /\ lookup.serial # None) =>
        LET same == {i \in 1..Len(conf.sections) :
                        Lower(conf.sections[i].name) = Lower(lookup.serial)}
        IN  IF same # {}
            THEN \E i \in same : ReturnedSection(i)
            ELSE /\ ConfigurationError
                 /\ lookup.value = NoProxy
                 /\ lookup.message =
                       IF conf.sections = <<>> THEN NoConfigurationFile ELSE SerialNotFound

C14_Witness ==
    /\ ReadDone /\ lookup.raised = "none"
    /\ lookup.serial = SerialText["00908e7e"]
    /\ lookup.value.name = Upper(SerialText["00908e7e"])
    /\ lookup.name # None
    /\ lookup.name # lookup.value.options.name
    /\ Len(conf.sections) = 2

\* C15: a read with no serial and a name, of a file that has records,
\* returns a record one of whose values equals the name ignoring case, and
\* fails with the not-found error exactly when no record has such a value.
C15_NameLookup ==
    (ReadDone /\ lookup.serial = None /\ lookup.name # None /\ conf.sections # <<>>) =>
        LET holders == {i \in 1..Len(conf.sections) :
                           \E f \in Fields :
                               /\ conf.sections[i].options[f] # None
                               /\ Lower(conf.sections[i].options[f]) = Lower(lookup.name)}
        IN  IF holders # {}
            THEN \E i \in holders : ReturnedSection(i)
            ELSE ConfigurationError /\ lookup.message = NameNotFound

(***************************************************************************)
(* save_cert on every earlier state of the file.                           *)
(***************************************************************************)
\* an empty directory, or one file left by an earlier save
InitDirs ==
    {EmptyDir} \cup
    {[EmptyDir EXCEPT ![p] = [exists |-> TRUE, bytes |-> b]] :
        p \in CertFileNames, b \in ByteStrings}

InitSave ==
    /\ certs \in InitDirs
    /\ saveArgs = NoSave
    /\ saved = None
    /\ fs = NoFiles
    /\ StoreIdle /\ CertIdle /\ AuthIdle /\ PairIdle /\ ReadIdle /\ ConcIdle

SaveCert(cert, name, serial) ==
    /\ saved = None
    /\ LET r == save_cert(cert, name, serial, certs)
       IN  /\ certs' = r.dir
           /\ saved' = r.cert_file
    /\ saveArgs' = [cert |-> cert, name |-> name, serial |-> serial]
    /\ UNCHANGED <<concVars, storeVars, certVars, authVars, pairVars, readVars>>

NextSave ==
    \E cert \in ByteStrings, name \in CommonNames, serial \in Serials :
        SaveCert(cert, name, serial)

SpecSave == InitSave /\ [][NextSave]_vars

\* C17: after save_cert the file <name>-<serial>.cert holds exactly the bytes
\* given, whatever was there before, and the path returned is that file's.
C17_CreateOrTruncate ==
    saved # None =>
        /\ saved = CertFileName(saveArgs.name, saveArgs.serial)
        /\ certs[saved].exists
        /\ certs[saved].bytes = saveArgs.cert

(***************************************************************************)
(* A pairing persisted with write_config, read back with                   *)
(* read_configuration: a read, the two store updates of a pairing (the     *)
(* certificate stage and the guid stage of section 4.6 of the              *)
(* specification), a second read.                                          *)
(***************************************************************************)
\* the serial of the device as the caller may write it
RoundSerials == {SerialText[identity.serial], Upper(SerialText[identity.serial])}
\* the file at conf_file before the pairing: missing, or with another record
RoundConfs ==
    {AbsentConf,
     IniConf(<<[name |-> <<97, 98>>,
                options |-> [cert |-> <<99>>, ip |-> <<50>>, name |-> <<87>>,
                             guid |-> <<97>>]]>>)}

InitRound ==
    /\ fs \in {[cfg |-> c, tmp |-> Absent, err |-> Absent] : c \in InitStores}
    /\ identity \in Identities
    /\ snapshot = NoFiles
    /\ conf \in RoundConfs
    /\ settings_dir \in SettingsDirs
    /\ lookup = NoLookup
    /\ stage = "fresh"
    /\ StoreIdle /\ CertIdle /\ AuthIdle /\ SaveIdle /\ ConcIdle

\* Robot(serial, ip, name, settings_dir) before the pairing
FirstRead(serial) ==
    /\ stage = "fresh"
    /\ LET r == read_configuration(FileAt(conf_file(settings_dir)), serial,
                                   identity.name)
       IN  lookup' = [serial |-> serial, name |-> identity.name, raised |-> r.raised,
                      message |-> r.message, value |-> r.value]
    /\ stage' = "unpaired"
    /\ UNCHANGED <<concVars, conf, settings_dir, storeVars, certVars, authVars, pairVars,
                   saveVars>>

\* the certificate stage stores the certificate path, the ip and the name
StoreCertificate ==
    /\ stage = "unpaired"
    /\ LET r == write_config(fs, identity.serial, identity.cert_file,
                             identity.ip, identity.name, None, TRUE, "ok")
       IN  /\ fs' = r.fs
           /\ stage' = IF r.result = "ok" THEN "certificate" ELSE "failed"
    /\ UNCHANGED <<concVars, call, pre, ops, faults, damage, conf, settings_dir, lookup,
                   certVars, authVars, pairVars, saveVars>>

\* the guid stage merges the guid into the record
StoreGuid(guid) ==
    /\ stage = "certificate"
    /\ LET r == write_config(fs, identity.serial, None, None, None, guid, FALSE, "ok")
       IN  /\ fs' = r.fs
           /\ stage' = IF r.result = "ok" THEN "paired" ELSE "failed"
    /\ UNCHANGED <<concVars, call, pre, ops, faults, damage, conf, settings_dir, lookup,
                   certVars, authVars, pairVars, saveVars>>

\* Robot(serial, ip, name, settings_dir) after the pairing
SecondRead(serial) ==
    /\ stage = "paired"
    /\ LET r == read_configuration(FileAt(conf_file(settings_dir)), serial,
                                   identity.name)
       IN  lookup' = [serial |-> serial, name |-> identity.name, raised |-> r.raised,
                      message |-> r.message, value |-> r.value]
    /\ stage' = "done"
    /\ UNCHANGED <<concVars, conf, settings_dir, storeVars, certVars, authVars, pairVars,
                   saveVars>>

NextRound ==
    \/ \E serial \in RoundSerials : FirstRead(serial)
    \/ StoreCertificate
    \/ \E guid \in GuidBytes : StoreGuid(guid)
    \/ \E serial \in RoundSerials : SecondRead(serial)

SpecRound == InitRound /\ [][NextRound]_vars

\* C16: after a pairing whose updates stored the certificate path, the ip,
\* the name and the guid, a read for the serial, in either letter case,
\* succeeds and returns exactly the four values stored, the guid as text.
C16_PersistThenRead ==
    stage = "done" =>
        /\ lookup.raised = "none"
        /\ lookup.value.options =
              [f \in Fields |-> fs.cfg.data[identity.serial][f]]
        /\ lookup.value.options.cert = identity.cert_file
        /\ lookup.value.options.ip = identity.ip
        /\ lookup.value.options.name = identity.name
        /\ lookup.value.options.guid # None

(***************************************************************************)
(* Two write_config calls for two serials at the same time.  Each call is  *)
(* stepped system call by system call; write_config takes no lock, so the  *)
(* steps of the two calls interleave freely.  A task is named by the       *)
(* serial it updates.  An open file follows its file through renames and   *)
(* outlives its removal (POSIX).                                           *)
(***************************************************************************)
\* the arguments of the calls: update(serial, ip = "1", clear)
StartedTasks ==
    {[pc |-> "read", config |-> EmptyConfig, fd |-> "none", result |-> "none",
      clear |-> c, ip |-> <<49>>] : c \in BOOLEAN}

\* the stores the calls may find: none, a parsable one, an unparsable one
ConcStores == InitStores \cup {CorruptFile([s \in Serials |-> PairedRecord])}

InitConc ==
    /\ fs \in {[cfg |-> c, tmp |-> Absent, err |-> Absent] : c \in ConcStores}
    /\ tasks \in [Serials -> StartedTasks]
    /\ StoreIdle /\ CertIdle /\ AuthIdle /\ PairIdle /\ ReadIdle /\ SaveIdle

\* the open files after os.rename(from, to): a file open at from is at to,
\* the file that was at to has no name any more
AfterRename(t, from, to) ==
    [q \in Serials |->
        [t[q] EXCEPT !.fd = IF @ = from THEN to
                            ELSE IF @ = to THEN "unlinked" ELSE @]]
\* the open files after os.remove(at)
AfterRemove(t, at) ==
    [q \in Serials |-> [t[q] EXCEPT !.fd = IF @ = at THEN "unlinked" ELSE @]]

\* the task ends by raising
Raise(t, p, exception) ==
    [t EXCEPT ![p].pc = "done", ![p].result = exception, ![p].fd = "none"]

\* lines 182-191 on the parser of the task, then on to line 193
Merge(t, p, config) ==
    LET ap == ApplyFields(config, p, None, t[p].ip, None, None, t[p].clear)
    IN  IF ap.raised # "none" THEN Raise(t, p, ap.raised)
        ELSE [t EXCEPT ![p].config = ap.config, ![p].pc = "check_store"]

\* a file with nothing in it
EmptyFile == IniFile(EmptyConfig)
HasContent(file) == file.kind = "corrupt" \/ file.data # EmptyConfig

\* config.write(f) into a file opened without O_TRUNC: the text goes over
\* the start of what the file holds; when that was longer, its tail stays
\* behind the new text and the file does not parse beyond the new sections
Overwrite(file, config, tail) ==
    IF tail /\ HasContent(file) THEN CorruptFile(config) ELSE IniFile(config)

\* line 178: config.read(config_file)
ReadStep(p) ==
    /\ tasks[p].pc = "read"
    /\ LET rd == ConfigRead(fs.cfg)
       IN  tasks' =
              IF rd.UnicodeDecodeError THEN Raise(tasks, p, "UnicodeDecodeError")
              ELSE IF rd.ParsingError
              THEN [tasks EXCEPT ![p].config = rd.config, ![p].pc = "check_error"]
              ELSE Merge(tasks, p, rd.config)
    /\ UNCHANGED <<storeVars, certVars, authVars, pairVars, readVars, saveVars>>

\* line 180: os.path.exists(config_file) after a ParsingError
CheckError(p) ==
    /\ tasks[p].pc = "check_error"
    /\ tasks' = IF Exists(fs.cfg) THEN [tasks EXCEPT ![p].pc = "rename_error"]
                ELSE Merge(tasks, p, tasks[p].config)
    /\ UNCHANGED <<storeVars, certVars, authVars, pairVars, readVars, saveVars>>

\* line 181: os.rename(config_file, config_file + "-error")
RenameError(p) ==
    /\ tasks[p].pc = "rename_error"
    /\ IF Exists(fs.cfg)
       THEN /\ fs' = RenameToError(fs)
            /\ tasks' = Merge(AfterRename(tasks, "cfg", "err"), p, tasks[p].config)
       ELSE /\ tasks' = Raise(tasks, p, "FileNotFoundError")
            /\ UNCHANGED fs
    /\ UNCHANGED <<call, pre, ops, faults, damage, certVars, authVars, pairVars,
                   readVars, saveVars>>

\* line 193: os.path.exists(config_file)
CheckStore(p) ==
    /\ tasks[p].pc = "check_store"
    /\ tasks' = [tasks EXCEPT ![p].pc = IF Exists(fs.cfg) THEN "rename_temp" ELSE "open"]
    /\ UNCHANGED <<storeVars, certVars, authVars, pairVars, readVars, saveVars>>

\* line 194: os.rename(config_file, temp_file), outside the try
RenameTemp(p) ==
    /\ tasks[p].pc = "rename_temp"
    /\ IF Exists(fs.cfg)
       THEN /\ fs' = RenameToTemp(fs)
            /\ tasks' = [AfterRename(tasks, "cfg", "tmp") EXCEPT ![p].pc = "open"]
       ELSE /\ tasks' = Raise(tasks, p, "FileNotFoundError")
            /\ UNCHANGED fs
    /\ UNCHANGED <<call, pre, ops, faults, damage, certVars, authVars, pairVars,
                   readVars, saveVars>>

\* line 196: os.open(config_file, os.O_WRONLY | os.O_CREAT, 0o600)
Open(p) ==
    /\ tasks[p].pc = "open"
    /\ fs' = IF Exists(fs.cfg) THEN fs ELSE [fs EXCEPT !.cfg = EmptyFile]
    /\ tasks' = [tasks EXCEPT ![p].pc = "write", ![p].fd = "cfg"]
    /\ UNCHANGED <<call, pre, ops, faults, damage, certVars, authVars, pairVars,
                   readVars, saveVars>>

\* line 197: config.write(f) and the close at the end of the with block
Write(p, tail) ==
    /\ tasks[p].pc = "write"
    /\ LET at == tasks[p].fd
       IN  /\ tail => (at # "unlinked" /\ HasContent(fs[at]))
           /\ fs' = IF at = "unlinked" THEN fs
                     ELSE [fs EXCEPT ![at] = Overwrite(@, tasks[p].config, tail)]
    /\ tasks' = [tasks EXCEPT ![p].pc = "check_temp", ![p].fd = "none"]
    /\ UNCHANGED <<call, pre, ops, faults, damage, certVars, authVars, pairVars,
                   readVars, saveVars>>

\* line 203: os.path.exists(temp_file)
CheckTemp(p) ==
    /\ tasks[p].pc = "check_temp"
    /\ tasks' = IF Exists(fs.tmp) THEN [tasks EXCEPT ![p].pc = "remove_temp"]
                ELSE [tasks EXCEPT ![p].pc = "done", ![p].result = "ok"]
    /\ UNCHANGED <<storeVars, certVars, authVars, pairVars, readVars, saveVars>>

\* line 204: os.remove(temp_file)
RemoveTempStep(p) ==
    /\ tasks[p].pc = "remove_temp"
    /\ IF Exists(fs.tmp)
       THEN /\ fs' = RemoveTemp(fs)
            /\ tasks' = [AfterRemove(tasks, "tmp") EXCEPT
                             ![p].pc = "done", ![p].result = "ok"]
       ELSE /\ tasks' = Raise(tasks, p, "FileNotFoundError")
            /\ UNCHANGED fs
    /\ UNCHANGED <<call, pre, ops, faults, damage, certVars, authVars, pairVars,
                   readVars, saveVars>>

NextConc ==
    \E p \in Serials :
        \/ ReadStep(p)
        \/ CheckError(p)
        \/ RenameError(p)
        \/ CheckStore(p)
        \/ RenameTemp(p)
        \/ Open(p)
        \/ \E tail \in BOOLEAN : Write(p, tail)
        \/ CheckTemp(p)
        \/ RemoveTempStep(p)

SpecConc == InitConc /\ [][NextConc]_vars

BothDone == \A p \in Serials : tasks[p].pc = "done"

\* C21: when two updates for two different serials have run with their
\* steps interleaved in any order, both have finished without error, the
\* store is there and parses, and it holds the record of both serials.
C21_ConcurrentUpdatesSerialized ==
    BothDone =>
        /\ \A p \in Serials : tasks[p].result = "ok"
        /\ fs.cfg.kind = "ini"
        /\ \A p \in Serials :
              /\ fs.cfg.data[p].present
              /\ fs.cfg.data[p].ip = tasks[p].ip

====
